---- MODULE Spec2Model ----
(***************************************************************************)
(* Canonical Huffman tree of compress/bzip2 (huffman.go): construction     *)
(* (newHuffmanTree, buildHuffmanNode) and decoding (huffmanTree.Decode).   *)
(*                                                                         *)
(* A uint32 is kept as a pair <<hi, lo>> of its two 16-bit halves, so that *)
(* all 32 bits and the wrap-around of the code accumulator are modelled    *)
(* with integers the model checker can hold.  Go slices are 0-based; the   *)
(* sequences below are 1-based, so slice element i is sequence element     *)
(* i + 1.  The indexes l, r, firstRightIndex, nextNode and the node        *)
(* indexes stored in the tree keep their 0-based Go values.                *)
(***************************************************************************)
EXTENDS Integers, Sequences, FiniteSets, TLC

\* ------------------------------------------------------------------ bounds
\* Largest number of symbols of the exhaustively enumerated length arrays.
MaxSyms == 4

\* Largest number of symbols of the enumerated arrays over the lengths {2, 3}.
MaxWide == 6

\* Largest number of bits of a bit source held in the bit reader's buffer
\* when Decode is entered.
MaxBuffered == 2

\* Longest enumerated arbitrary bit source.
MaxBits == 3

\* Largest slice for which every result of the unstable sort is explored.
MaxShuffle == 7

\* ---------------------------------------------------------------- constants
invalidNodeValue == 65535

\* The maximum code length, and the width of a code.
MaxCodeLen == 32

\* 2^16: a uint32 is the pair <<hi, lo>> with value hi * Half + lo.
Half == 2 ^ 16

\* ------------------------------------------------------------ uint32 values
Pow2(n) == 2 ^ n

Zero32 == <<0, 0>>

\* 1 << sh as a uint32; a shift count of 32 or more gives 0.
Shl1(sh) ==
    IF sh >= 32 THEN <<0, 0>>
    ELSE IF sh >= 16 THEN <<Pow2(sh - 16), 0>>
    ELSE <<0, Pow2(sh)>>

\* a + b modulo 2^32.
Add32(a, b) ==
    LET lo == a[2] + b[2]
        hi == a[1] + b[1] + (lo \div Half)
    IN  <<hi % Half, lo % Half>>

\* a < b on uint32.
Less32(a, b) == a[1] < b[1] \/ (a[1] = b[1] /\ a[2] < b[2])

\* Bit p of a uint32, p = 0 the most significant bit.
BitAt(c, p) ==
    IF p < 16 THEN (c[1] \div Pow2(15 - p)) % 2
    ELSE (c[2] \div Pow2(31 - p)) % 2

\* code & test # 0, test = uint32(1) << (31 - level).  level is a uint32:
\* for level > 31 the shift count 31 - level wraps to a value >= 32 and
\* test is 0.
TestBit(c, level) == level <= 31 /\ BitAt(c, level) = 1

\* ------------------------------------------------------- newHuffmanTree
Min(S) == CHOOSE x \in S : \A y \in S : x <= y

\* The comparison with the tie between equal lengths broken the other way.
PairLess_TieReversed(ls, u, v) ==
    \/ ls[u + 1] < ls[v + 1]
    \/ (ls[u + 1] = ls[v + 1] /\ u > v)

\* The comparison of sort.Slice: ascending code length, the symbol value
\* breaking ties.  Symbols are 0 .. N-1; symbol v has length ls[v + 1].
PairLess(ls, u, v) ==
    \/ ls[u + 1] < ls[v + 1]
    \/ (ls[u + 1] = ls[v + 1] /\ u < v)

\* pairs after sort.Slice.  PairLess is a strict total order, so the sorted
\* slice is unique: the symbol at index k is the one with k symbols below it.
SortedPairs(ls) ==
    LET N == Len(ls)
        rank(v) == Cardinality({u \in 0 .. N - 1 : PairLess(ls, u, v)})
    IN  [k \in 1 .. N |->
            LET v == CHOOSE w \in 0 .. N - 1 : rank(w) = k - 1
            IN  [value |-> v, length |-> ls[v + 1]]]

\* code += 1 << (32 - length), on uint32.
NextCode(c, len) == Add32(c, Shl1(32 - len))

\* The length tracker of the code assignment loop after it has seen a pair
\* of the given length.
Tracker(len, pairLength) == IF len > pairLength THEN pairLength ELSE len

\* codes as make() leaves it.
ZeroCodes(n) == [i \in 1 .. n |-> [code |-> Zero32, codeLen |-> 0, value |-> 0]]

\* huffmanCodes.Less.
CodeLess(a, b) == Less32(a.code, b.code)

\* sort.Sort(&codes): sort.Sort is not stable, so every arrangement that is
\* ascending by code is a possible result (entries with equal codes in any
\* order).  Arrangements gives the set of them for the entries indexed by S.
RECURSIVE Arrangements(_, _)
Arrangements(cs, S) ==
    IF S = {} THEN {<<>>}
    ELSE LET mins == {x \in S : \A y \in S : ~CodeLess(cs[y], cs[x])}
         IN  UNION {{<<cs[x]>> \o t : t \in Arrangements(cs, S \ {x})} : x \in mins}

\* The ascending arrangement that keeps entries with equal codes in the order
\* they had.
Ascending(cs) ==
    LET before(x, y) == CodeLess(cs[x], cs[y]) \/ (cs[x].code = cs[y].code /\ x < y)
        rank(y) == Cardinality({x \in 1 .. Len(cs) : before(x, y)})
    IN  [k \in 1 .. Len(cs) |-> cs[CHOOSE y \in 1 .. Len(cs) : rank(y) = k - 1]]

\* All arrangements are explored for slices of up to MaxShuffle entries; for
\* longer ones the arrangement Ascending stands for them.
SortOutcomes(cs) ==
    IF Len(cs) <= MaxShuffle THEN Arrangements(cs, 1 .. Len(cs)) ELSE {Ascending(cs)}

\* ------------------------------------------------------------------ state
VARIABLES
    lengths,    \* the argument of newHuffmanTree
    pc,         \* "start", "assign", "build", "built", "decode", "decoded"
    pairs,      \* pairs after sort.Slice
    i,          \* the index of the code assignment loop
    code,       \* the code accumulator (uint32)
    length,     \* the length tracker (uint8)
    codes,      \* huffmanCodes after sort.Sort, as a sequence of entries
    nodes,      \* t.nodes
    nextNode,   \* t.nextNode
    stack,      \* the active calls of buildHuffmanNode, innermost last
    ret,        \* the (nodeIndex, err) a call has just returned, if any
    outcome,    \* how newHuffmanTree ended
    br,         \* the bit reader handed to Decode
    nodeIndex,  \* Decode's nodeIndex
    decoded,    \* how Decode ended, and the value it returned
    made,       \* history: made[k + 1] is the call that took node k, as
                \* [level, l, r, first]
    source,     \* history: the bits of the bit source when Decode was called
    bitsRead    \* history: the bits Decode has taken from the bit reader

vars == <<lengths, pc, pairs, i, code, length, codes, nodes, nextNode, stack,
          ret, outcome, br, nodeIndex, decoded, made, source, bitsRead>>

assignVars == <<pairs, i, code, length>>
decodeVars == <<br, nodeIndex, decoded, source, bitsRead>>

NoRet == [set |-> FALSE, nodeIndex |-> 0, err |-> "nil"]
Returned(ni, e) == [set |-> TRUE, nodeIndex |-> ni, err |-> e]

ZeroNode == [left |-> 0, right |-> 0, leftValue |-> 0, rightValue |-> 0]

Frame(level, l, r) ==
    [level |-> level, l |-> l, r |-> r, first |-> 0, node |-> 0, stage |-> "enter"]

Top == stack[Len(stack)]
Pop(st) == SubSeq(st, 1, Len(st) - 1)
SetTop(st, f) == [st EXCEPT ![Len(st)] = f]

\* A Go slice index in range.
InRange(x, n) == 0 <= x /\ x < n

\* ----------------------------------------------------- buildHuffmanNode
\* The value firstRightIndex starts with, kept when no code of the
\* sub-range has the tested bit set.
FirstRightDefault(l, r) == r - l

\* The search for the divide.  The loop reads codes.code[i] for i = l, l+1,
\* ... and stops at the first code with the tested bit set; reading outside
\* the slice panics.
Scan(cs, level, l, r) ==
    LET stop == {x \in l .. r - 1 :
                    ~InRange(x, Len(cs)) \/ TestBit(cs[x + 1].code, level)}
    IN  IF stop = {} THEN [panic |-> FALSE, first |-> FirstRightDefault(l, r)]
        ELSE IF ~InRange(Min(stop), Len(cs)) THEN [panic |-> TRUE, first |-> 0]
        ELSE [panic |-> FALSE, first |-> Min(stop)]

\* firstRightIndex-l == 0 || r-firstRightIndex == 0
Degenerate(l, r, first) == first - l = 0 \/ r - first = 0

\* The level at which a degenerate split is refused.
LastLevel == 31

\* What a step of the construction leaves behind.
Build(st, ns, nn, rt, oc) ==
    [stack |-> st, nodes |-> ns, nextNode |-> nn, ret |-> rt, outcome |-> oc]

\* A call whose caller is "return buildHuffmanNode(...)" hands its result
\* on unchanged: a return leaves the returning call and every such caller.
RECURSIVE Unwind(_)
Unwind(st) ==
    IF st # <<>> /\ st[Len(st)].stage = "tail" THEN Unwind(Pop(st)) ELSE st

\* The innermost call returns (ni, e).
Return(st, ns, nn, ni, e) == Build(Unwind(Pop(st)), ns, nn, Returned(ni, e), "running")

\* An index out of range: the run-time panic ends the construction.
Panic(st, ns, nn) == Build(st, ns, nn, NoRet, "panic")

\* The innermost call calls buildHuffmanNode(t, codes, level+1, l, r) from
\* the place `stage` of its body.
Call(st, ns, nn, stage, l, r) ==
    LET f == st[Len(st)]
    IN  Build(Append(SetTop(st, [f EXCEPT !.stage = stage]), Frame(f.level + 1, l, r)),
              ns, nn, NoRet, "running")

\* Lines 242-250: the right child of the node of the innermost call.
RightChild(st, ns, nn) ==
    LET f == st[Len(st)]
    IN  IF f.r - f.first = 1
        THEN IF ~InRange(f.first, Len(codes)) THEN Panic(st, ns, nn)
             ELSE Return(st,
                         [ns EXCEPT ![f.node + 1].right = invalidNodeValue,
                                    ![f.node + 1].rightValue = codes[f.first + 1].value],
                         nn, f.node, "nil")
        ELSE Call(st, ns, nn, "right", f.first, f.r)

\* Lines 226-236: a node is taken for the innermost call and its left child
\* is built.
LeftChild(st, ns, nn) ==
    LET g == st[Len(st)]
    IN  IF ~InRange(nn, Len(ns)) THEN Panic(st, ns, nn)
        ELSE LET f  == [g EXCEPT !.node = nn]
                 s1 == SetTop(st, f)
             IN  IF f.first - f.l = 1
                 THEN IF ~InRange(f.l, Len(codes)) THEN Panic(s1, ns, nn + 1)
                      ELSE RightChild(s1,
                              [ns EXCEPT ![f.node + 1].left = invalidNodeValue,
                                         ![f.node + 1].leftValue = codes[f.l + 1].value],
                              nn + 1)
                 ELSE Call(s1, ns, nn + 1, "left", f.l, f.first)

\* Lines 192-224: the superfluous level.  Past level 31 the tested bit is 0
\* in every call, so a superfluous level is followed by the same call one
\* level deeper without end: the goroutine's stack overflows.
Superfluous(st, ns, nn) ==
    LET f == st[Len(st)]
    IN  IF Len(codes) < 2 THEN Return(st, ns, nn, 0, "empty Huffman tree")
        ELSE IF f.level = LastLevel
             THEN Return(st, ns, nn, 0, "equal symbols in Huffman tree")
        ELSE IF f.level > LastLevel THEN Build(st, ns, nn, NoRet, "stack overflow")
        ELSE IF f.first - f.l = 0 THEN Call(st, ns, nn, "tail", f.first, f.r)
        ELSE Call(st, ns, nn, "tail", f.l, f.first)

\* buildHuffmanNode from its entry to its first call or return.
Enter(st, ns, nn) ==
    LET g  == st[Len(st)]
        sc == Scan(codes, g.level, g.l, g.r)
        s1 == SetTop(st, [g EXCEPT !.first = sc.first])
    IN  IF sc.panic THEN Panic(st, ns, nn)
        ELSE IF Degenerate(g.l, g.r, sc.first) THEN Superfluous(s1, ns, nn)
        ELSE LeftChild(s1, ns, nn)

\* buildHuffmanNode when the call it made has returned rt.
Resume(st, ns, nn, rt) ==
    LET f == st[Len(st)]
    IN  IF f.stage = "left"
        THEN LET n1 == [ns EXCEPT ![f.node + 1].left = rt.nodeIndex]
             IN  IF rt.err # "nil" THEN Return(st, n1, nn, f.node, rt.err)
                 ELSE RightChild(st, n1, nn)
        ELSE Return(st, [ns EXCEPT ![f.node + 1].right = rt.nodeIndex], nn, f.node, rt.err)

\* ---------------------------------------------------------------- inputs
LenSet == {0, 1, 2, 3, LastLevel, MaxCodeLen}

SeqsOver(S, lo, hi) == UNION {[1 .. n -> S] : n \in lo .. hi}

\* The longest complete code: lengths 1, 2, ..., k, k.
Chain(k) == [j \in 1 .. k + 1 |-> IF j <= k THEN j ELSE k]

\* One symbol of length 1 and n - 1 symbols of length 0.
OneAndZeros(n) == [j \in 1 .. n |-> IF j = 1 THEN 1 ELSE 0]

\* The longest complete code followed by one more symbol: its code wraps
\* the accumulator round to the code of the first symbol.
Inputs ==
    SeqsOver(LenSet, 2, MaxSyms) \cup SeqsOver({2, 3}, 2, MaxWide)
        \cup {Chain(MaxCodeLen - 1), Chain(MaxCodeLen)}
        \cup {Append(Chain(MaxCodeLen), x) : x \in {0, 1}}
        \cup {OneAndZeros(MaxCodeLen + 2)}

\* ------------------------------------------------------------ bit sources
\* a + b on pairs <<hi, lo>>, hi not reduced: the exact sum.
AddWide(a, b) ==
    LET lo == a[2] + b[2]
    IN  <<a[1] + b[1] + (lo \div Half), lo % Half>>

\* The exact sum of 2^(32 - q[k].length) for k in lo .. hi.
RECURSIVE SumSteps(_, _, _)
SumSteps(q, lo, hi) ==
    IF lo > hi THEN Zero32
    ELSE IF lo = hi THEN Shl1(32 - q[lo].length)
    ELSE LET mid == (lo + hi) \div 2
         IN  AddWide(SumSteps(q, lo, mid), SumSteps(q, mid + 1, hi))

\* The symbols in ascending order of (length, symbol value), as [value, length].
CanonicalOrder(ls) ==
    LET N == Len(ls)
        below(w) == {u \in 0 .. N - 1 :
                        ls[u + 1] < ls[w + 1] \/ (ls[u + 1] = ls[w + 1] /\ u < w)}
    IN  [k \in 1 .. N |->
            LET v == CHOOSE w \in 0 .. N - 1 : Cardinality(below(w)) = k - 1
            IN  [value |-> v, length |-> ls[v + 1]]]

\* The first n bits of a uint32, most significant first.
TopBits(c, n) == [p \in 1 .. n |-> BitAt(c, p - 1)]

\* The canonical code of the symbol at index k (1-based) of the pairs q in
\* ascending (length, value) order: the first symbol has all-zero bits, each
\* next one the previous code plus one, shifted left to its own length.  Kept
\* left-justified in 32 bits, "plus one" at length n is plus 2^(32 - n), so the
\* code is the sum of 2^(32 - length) over the symbols before it.
CanonicalBits(q, k) ==
    LET sum == SumSteps(q, 1, k - 1)
    IN  TopBits(<<sum[1] % Half, sum[2]>>, q[k].length)

Prefixes(b) == {SubSeq(b, 1, n) : n \in 0 .. Len(b)}

\* The bit sources Decode is run on: every canonical code and every prefix of
\* one, and every bit string of up to MaxBits bits.
BitSources(ls) ==
    UNION {Prefixes(CanonicalBits(CanonicalOrder(ls), k)) : k \in 1 .. Len(ls)}
        \cup UNION {[1 .. n -> {0, 1}] : n \in 0 .. MaxBits}

\* The value of a bit string.
RECURSIVE BitsValue(_)
BitsValue(b) == IF b = <<>> THEN 0 ELSE 2 * BitsValue(SubSeq(b, 1, Len(b) - 1)) + b[Len(b)]

\* ---------------------------------------------------------------- actions
Init ==
    /\ lengths \in Inputs
    /\ pc = "start"
    /\ pairs = <<>>
    /\ i = 0
    /\ code = Zero32
    /\ length = 0
    /\ codes = <<>>
    /\ nodes = <<>>
    /\ nextNode = 0
    /\ stack = <<>>
    /\ ret = NoRet
    /\ outcome = "running"
    /\ br = [n |-> 0, bits |-> 0, rest |-> <<>>]
    /\ nodeIndex = 0
    /\ decoded = [state |-> "none", v |-> 0]
    /\ made = <<>>
    /\ source = <<>>
    /\ bitsRead = <<>>

\* One node fewer than codes.
NodesLen_OneLess(n) == n - 1

\* len(t.nodes) as newHuffmanTree makes it, for n = len(codes.code).
NodesLen(n) == n

\* newHuffmanTree, lines 89-127: the pairs are sorted and the code assignment
\* loop is entered.
NewHuffmanTree ==
    /\ pc = "start"
    /\ pairs' = SortedPairs(lengths)
    /\ code' = Zero32
    /\ length' = MaxCodeLen
    /\ codes' = ZeroCodes(Len(lengths))
    /\ i' = Len(lengths) - 1
    /\ pc' = "assign"
    /\ UNCHANGED <<lengths, nodes, nextNode, stack, ret, outcome, made, decodeVars>>

\* One iteration of the code assignment loop, lines 128-138.
AssignCode ==
    /\ pc = "assign" /\ i >= 0
    /\ LET len == Tracker(length, pairs[i + 1].length)
       IN  /\ length' = len
           /\ codes' = [codes EXCEPT ![i + 1] =
                          [code |-> code, codeLen |-> len, value |-> pairs[i + 1].value]]
           /\ code' = NextCode(code, len)
    /\ i' = i - 1
    /\ UNCHANGED <<lengths, pc, pairs, nodes, nextNode, stack, ret, outcome, made, decodeVars>>

\* newHuffmanTree, lines 142-145: the codes are sorted, the nodes are made and
\* buildHuffmanNode is called on the whole range at level 0.
SortCodes ==
    /\ pc = "assign" /\ i < 0
    /\ codes' \in SortOutcomes(codes)
    /\ nodes' = [k \in 1 .. NodesLen(Len(codes)) |-> ZeroNode]
    /\ nextNode' = 0
    /\ stack' = <<Frame(0, 0, Len(codes))>>
    /\ pc' = "build"
    /\ UNCHANGED <<lengths, assignVars, ret, outcome, made, decodeVars>>

Apply(b) ==
    /\ stack' = b.stack
    /\ nodes' = b.nodes
    /\ nextNode' = b.nextNode
    /\ ret' = b.ret
    /\ outcome' = b.outcome
    /\ pc' = IF b.outcome = "running" THEN "build" ELSE "built"
    /\ UNCHANGED <<lengths, assignVars, codes, decodeVars>>

\* A call of buildHuffmanNode runs from its entry to its first call or return.
BuildEnter ==
    /\ pc = "build" /\ ~ret.set /\ stack # <<>>
    /\ Apply(Enter(stack, nodes, nextNode))
    /\ made' = IF nextNode' > nextNode
               THEN Append(made, [level |-> Top.level, l |-> Top.l, r |-> Top.r,
                                  first |-> Scan(codes, Top.level, Top.l, Top.r).first])
               ELSE made

\* A call of buildHuffmanNode runs on from the return of the call it made.
BuildResume ==
    /\ pc = "build" /\ ret.set /\ stack # <<>>
    /\ Apply(Resume(stack, nodes, nextNode, ret))
    /\ UNCHANGED made

\* newHuffmanTree returns (t, err).
BuildFinish ==
    /\ pc = "build" /\ ret.set /\ stack = <<>>
    /\ outcome' = IF ret.err = "nil" THEN "ok" ELSE "StructuralError"
    /\ pc' = "built"
    /\ UNCHANGED <<lengths, assignVars, codes, nodes, nextNode, stack, ret, made, decodeVars>>

NextBuild == NewHuffmanTree \/ AssignCode \/ SortCodes \/ BuildEnter \/ BuildResume \/ BuildFinish

SpecBuild == Init /\ [][NextBuild]_vars

\* ----------------------------------------------------------------- Decode
\* bitReader.ReadBits(1) of the bit source: the next bit of the stream, or
\* the signal that the stream is exhausted.
ReadBit(b) ==
    IF b.rest = <<>> THEN [ok |-> FALSE, bit |-> 0, br |-> b]
    ELSE [ok |-> TRUE, bit |-> Head(b.rest), br |-> [b EXCEPT !.rest = Tail(b.rest)]]

\* The fast path is taken when bits are buffered.
Buffered(b) == b.bits > 0

\* The fast path without br.bits--.
NextBit_NoDecrement(b) ==
    IF Buffered(b)
    THEN [ok |-> TRUE, bit |-> (b.n \div Pow2(b.bits - 1)) % 2, br |-> b]
    ELSE ReadBit(b)

\* Lines 42-52: the next bit, from the buffer or from the stream.
NextBit(b) ==
    IF Buffered(b)
    THEN [ok |-> TRUE, bit |-> (b.n \div Pow2(b.bits - 1)) % 2,
          br |-> [b EXCEPT !.bits = b.bits - 1]]
    ELSE ReadBit(b)

\* The children taken the other way round.
Child_Swapped(node, bit) == IF bit = 1 THEN node.right ELSE node.left

\* Lines 56-62: the child taken on a bit.
Child(node, bit) == IF bit = 1 THEN node.left ELSE node.right

\* Lines 67-72: the value returned at a leaf.
LeafValue(node, bit) == IF bit = 1 THEN node.leftValue ELSE node.rightValue

\* Decode is called on the tree newHuffmanTree returned without error, with a
\* bit reader that holds the first k bits of the source in its buffer.
DecodeStart ==
    /\ pc = "built" /\ outcome = "ok"
    /\ \E src \in BitSources(lengths) :
         \E k \in 0 .. (IF Len(src) < MaxBuffered THEN Len(src) ELSE MaxBuffered) :
            /\ br' = [n |-> BitsValue(SubSeq(src, 1, k)), bits |-> k,
                      rest |-> SubSeq(src, k + 1, Len(src))]
            /\ source' = src
    /\ nodeIndex' = 0
    /\ bitsRead' = <<>>
    /\ decoded' = [state |-> "running", v |-> 0]
    /\ pc' = "decode"
    /\ UNCHANGED <<lengths, assignVars, codes, nodes, nextNode, stack, ret, outcome, made>>

\* One iteration of Decode's loop.
DecodeStep ==
    /\ pc = "decode"
    /\ IF ~InRange(nodeIndex, Len(nodes))
       THEN /\ decoded' = [state |-> "panic", v |-> 0]
            /\ pc' = "decoded"
            /\ UNCHANGED <<br, nodeIndex, bitsRead>>
       ELSE LET node == nodes[nodeIndex + 1]
                rd   == NextBit(br)
                next == Child(node, rd.bit)
            IN  IF ~rd.ok
                THEN /\ decoded' = [state |-> "truncated", v |-> 0]
                     /\ pc' = "decoded"
                     /\ UNCHANGED <<br, nodeIndex, bitsRead>>
                ELSE /\ br' = rd.br
                     /\ bitsRead' = Append(bitsRead, rd.bit)
                     /\ nodeIndex' = next
                     /\ IF next = invalidNodeValue
                        THEN /\ decoded' = [state |-> "returned", v |-> LeafValue(node, rd.bit)]
                             /\ pc' = "decoded"
                        ELSE UNCHANGED <<decoded, pc>>
    /\ UNCHANGED <<lengths, assignVars, codes, nodes, nextNode, stack, ret, outcome,
                   made, source>>

Next == NextBuild \/ DecodeStart \/ DecodeStep

Spec == Init /\ [][Next]_vars

\* ----------------------------------------------------------------- claims
Built == pc \in {"built", "decode", "decoded"}
Succeeded == Built /\ outcome = "ok"
CodesReady == pc \in {"build", "built", "decode", "decoded"}

DistinctCodes ==
    \A a, b \in 1 .. Len(codes) : a # b => codes[a].code # codes[b].code

\* Lengths in 1..32 with Kraft sum exactly 1: the sum of 2^(32 - length) is 2^32.
Valid(ls) ==
    /\ \A k \in 1 .. Len(ls) : ls[k] \in 1 .. MaxCodeLen
    /\ SumSteps([k \in 1 .. Len(ls) |-> [length |-> ls[k]]], 1, Len(ls)) = <<Half, 0>>

\* The canonical code of symbol s.
CanonicalCode(ls, s) ==
    LET q == CanonicalOrder(ls)
    IN  CanonicalBits(q, CHOOSE k \in 1 .. Len(ls) : q[k].value = s)

IsPrefix(a, b) == Len(a) <= Len(b) /\ a = SubSeq(b, 1, Len(a))

\* The leaves Decode can reach from node k, each with the bits read to reach
\* it from the node at which `path` has been read.
RECURSIVE Under(_, _, _)
Under(ns, k, path) ==
    LET node == ns[k + 1]
        side(bit) ==
            LET c == Child(node, bit)
                p == Append(path, bit)
            IN  IF c = invalidNodeValue THEN {[bits |-> p, v |-> LeafValue(node, bit)]}
                ELSE IF c > k /\ c < Len(ns) THEN Under(ns, c, p)
                ELSE {}
    IN  side(1) \cup side(0)

\* The symbols Decode can return after it has taken the given bit at node k.
ValuesUnder(ns, k, bit) ==
    LET c == Child(ns[k + 1], bit)
    IN  IF c = invalidNodeValue THEN {LeafValue(ns[k + 1], bit)}
        ELSE IF c > k /\ c < Len(ns) THEN {p.v : p \in Under(ns, c, <<>>)}
        ELSE {}

\* The greatest number of bit decisions from node 0 to a leaf among the first
\* n nodes; a child slot that is no leaf and no later node counts as HeightCap.
HeightCap == 2 * MaxCodeLen
Height(ns, n) ==
    LET h[k \in 0 .. n] ==
          LET sub(c) == IF c = invalidNodeValue THEN 0
                        ELSE IF c <= k \/ c >= n THEN HeightCap ELSE h[c]
              a == sub(ns[k + 1].left)
              b == sub(ns[k + 1].right)
          IN  1 + (IF a > b THEN a ELSE b)
    IN  h[0]

LexLess(a, b) ==
    \/ \E j \in 1 .. Len(a) :
          /\ j <= Len(b)
          /\ a[j] < b[j]
          /\ \A m \in 1 .. j - 1 : a[m] = b[m]
    \/ (Len(a) < Len(b) /\ IsPrefix(a, b))

EntryValues(S) == {codes[x + 1].value : x \in {y \in S : InRange(y, Len(codes))}}

\* The entries of a call's sub-range with the tested bit clear / set.
Zeros(m) == {x \in m.l .. m.r - 1 : InRange(x, Len(codes)) /\ ~TestBit(codes[x + 1].code, m.level)}
Ones(m) == {x \in m.l .. m.r - 1 : InRange(x, Len(codes)) /\ TestBit(codes[x + 1].code, m.level)}

\* A sub-range of at least 2 entries that all have the same value of the bit
\* of a level before the last.
SuperfluousLevel(level, l, r) ==
    /\ level < LastLevel
    /\ r - l >= 2
    /\ 0 <= l /\ r <= Len(codes)
    /\ \A x, y \in l .. r - 1 :
          TestBit(codes[x + 1].code, level) = TestBit(codes[y + 1].code, level)

\* C1: for a valid length array (lengths in 1..32, Kraft sum 1) newHuffmanTree
\* returns no error, and Decode on a bit source holding the canonical code of
\* a symbol returns that symbol.
C1_RoundTrip ==
    (Built /\ Valid(lengths)) =>
        /\ outcome = "ok"
        /\ pc = "decoded" =>
              \A s \in 0 .. Len(lengths) - 1 :
                 (Len(source) = lengths[s + 1] /\ source = CanonicalCode(lengths, s))
                    => decoded = [state |-> "returned", v |-> s]

C1_Witness ==
    /\ pc = "decoded" /\ Valid(lengths) /\ Len(lengths) >= 4
    /\ Len(source) >= 3
    /\ source = CanonicalCode(lengths, decoded.v)
    /\ decoded.state = "returned"

\* C2: when two different symbols are assigned the same 32-bit code,
\* newHuffmanTree returns a StructuralError and never a tree.
C2_IdenticalCodesRejected ==
    (Built /\ ~DistinctCodes) => outcome = "StructuralError"

\* C3: with pairwise distinct codes, a call at a bit position p < 31 on a
\* sub-range of at least 2 entries that all have the same bit p takes no node
\* and returns what the call on the same sub-range at p + 1 returns, and the
\* construction succeeds.
C3_SuperfluousLevelSkipped ==
    (CodesReady /\ DistinctCodes) =>
        /\ \A k \in 1 .. Len(made) :
              ~SuperfluousLevel(made[k].level, made[k].l, made[k].r)
        /\ \A k \in 1 .. Len(stack) :
              (stack[k].stage # "enter"
                 /\ SuperfluousLevel(stack[k].level, stack[k].l, stack[k].r))
              => /\ stack[k].stage = "tail"
                 /\ k < Len(stack) =>
                       /\ stack[k + 1].level = stack[k].level + 1
                       /\ stack[k + 1].l = stack[k].l
                       /\ stack[k + 1].r = stack[k].r
        /\ Built => outcome = "ok"

\* C4: newHuffmanTree ends by returning a tree or a StructuralError, and no
\* node is taken outside the node array (nextNode <= len(nodes), no panic).
C4_TotalOutcome ==
    /\ Built => outcome \in {"ok", "StructuralError"}
    /\ nextNode <= Len(nodes)

\* C5: in a tree returned without error, of two symbols a < b with the same
\* code length, the bits Decode reads to return a are lexicographically
\* smaller than the bits it reads to return b.
C5_TieBreak ==
    (pc = "built" /\ outcome = "ok") =>
        LET leaves == Under(nodes, 0, <<>>)
        IN  \A a, b \in 0 .. Len(lengths) - 1 :
               (a < b /\ lengths[a + 1] = lengths[b + 1]) =>
                  /\ \E pa \in leaves : pa.v = a
                  /\ \E pb \in leaves : pb.v = b
                  /\ \A pa, pb \in leaves :
                        (pa.v = a /\ pb.v = b) => LexLess(pa.bits, pb.bits)

C7_Termination ==
    /\ Len(stack) <= MaxCodeLen
    /\ \A k \in 1 .. Len(stack) :
          /\ stack[k].level <= LastLevel
          /\ stack[k].l < stack[k].r
          /\ k > 1 =>
                \/ /\ stack[k - 1].l <= stack[k].l
                   /\ stack[k].r <= stack[k - 1].r
                   /\ stack[k].r - stack[k].l < stack[k - 1].r - stack[k - 1].l
                \/ /\ stack[k].l = stack[k - 1].l
                   /\ stack[k].r = stack[k - 1].r
                   /\ stack[k].level > stack[k - 1].level
    /\ Built => outcome \in {"ok", "StructuralError"}

\* C8: after a construction without error every child slot of a node in use
\* is the leaf sentinel or the index of an allocated node, and every path from
\* node 0 reaches a leaf within 32 bit decisions, so Decode reads at most 32
\* bits.
C8_DepthInvariant ==
    Succeeded =>
        /\ \A k \in 1 .. nextNode :
              /\ nodes[k].left = invalidNodeValue \/ InRange(nodes[k].left, nextNode)
              /\ nodes[k].right = invalidNodeValue \/ InRange(nodes[k].right, nextNode)
        /\ Height(nodes, nextNode) <= MaxCodeLen
        /\ Len(bitsRead) <= MaxCodeLen

C10_AsStated ==
    /\ CodesReady => Len(nodes) = Len(lengths) - 1
    /\ Succeeded => (nextNode = Len(nodes) /\ nextNode = Len(lengths) - 1)

\* C10 amended: the node array is made with N entries before the recursion
\* begins, and after a construction without error N - 1 of them are in use
\* (nextNode = N - 1 = len(nodes) - 1).
C10_NodeCount ==
    /\ CodesReady => Len(nodes) = Len(lengths)
    /\ Succeeded => (nextNode = Len(lengths) - 1 /\ nextNode = Len(nodes) - 1)

C10_Witness ==
    /\ Succeeded /\ pc = "built"
    /\ Len(lengths) >= 4
    /\ nextNode = Len(lengths) - 1
    /\ Len(nodes) = Len(lengths)

====
